---------------------------- MODULE Spec2Model ----------------------------
(***************************************************************************)
(* Model of bbox3D_estimate_v2.py: dimensions_to_corners (the canonical    *)
(* corners of a batch of boxes) and solve_3d_bbox_single (the translation  *)
(* of one box by enumeration of 2D-edge/3D-corner correspondences).        *)
(*                                                                         *)
(* A tensor element is an IEEE value: a rational <<n, d>> in lowest terms  *)
(* with d > 0, or NaN = <<0, 0>>, +inf = <<1, 0>>, -inf = <<-1, 0>>.       *)
(* Finite arithmetic is exact (no rounding).  Tensors are functions with   *)
(* the 0-based index sets of the source.  An angle is the pair             *)
(* <<cos, sin>> of its direction, so that atan2, cos and sin are exact.    *)
(* The value of torch.norm is kept as its square: the square root is       *)
(* strictly monotonic on [0, inf], so every comparison is the same.        *)
(***************************************************************************)
EXTENDS Integers, Sequences, FiniteSets, TLC

-----------------------------------------------------------------------------
(* Element arithmetic *)

RECURSIVE GCD(_, _)
GCD(a, b) == IF b = 0 THEN a ELSE GCD(b, a % b)

Abs(n) == IF n < 0 THEN -n ELSE n

Rat(n, d) ==
    LET s == IF d < 0 THEN -1 ELSE 1
        g == GCD(Abs(n), Abs(d))
    IN  <<(s * n) \div g, (s * d) \div g>>

NaN == <<0, 0>>
PosInf == <<1, 0>>
Zero == <<0, 1>>
One == <<1, 1>>
Two == <<2, 1>>
Half == <<1, 2>>

IsNaN(a) == a = NaN
IsInf(a) == a[2] = 0 /\ a[1] # 0
IsFinite(a) == a[2] # 0
Sign(a) == IF a[1] > 0 THEN 1 ELSE IF a[1] < 0 THEN -1 ELSE 0

RNeg(a) == <<-a[1], a[2]>>

RAdd(a, b) ==
    IF IsNaN(a) \/ IsNaN(b) THEN NaN
    ELSE IF IsInf(a) THEN (IF IsInf(b) /\ b # a THEN NaN ELSE a)
    ELSE IF IsInf(b) THEN b
    ELSE IF a[2] = 1 /\ b[2] = 1 THEN <<a[1] + b[1], 1>>
    ELSE LET g == GCD(a[2], b[2])
         IN  Rat(a[1] * (b[2] \div g) + b[1] * (a[2] \div g), (a[2] \div g) * b[2])

RSub(a, b) == RAdd(a, RNeg(b))

RMul(a, b) ==
    IF IsNaN(a) \/ IsNaN(b) THEN NaN
    ELSE IF IsInf(a) \/ IsInf(b)
         THEN (IF Sign(a) * Sign(b) = 0 THEN NaN ELSE <<Sign(a) * Sign(b), 0>>)
    ELSE IF a[2] = 1 /\ b[2] = 1 THEN <<a[1] * b[1], 1>>
    ELSE LET g == GCD(Abs(a[1]), b[2])
             h == GCD(Abs(b[1]), a[2])
         IN  Rat((a[1] \div g) * (b[1] \div h), (a[2] \div h) * (b[2] \div g))

RDiv(a, b) ==
    IF IsNaN(a) \/ IsNaN(b) THEN NaN
    ELSE IF IsInf(a) THEN (IF IsInf(b) THEN NaN
                           ELSE <<Sign(a) * (IF Sign(b) < 0 THEN -1 ELSE 1), 0>>)
    ELSE IF IsInf(b) THEN Zero
    ELSE IF b[1] = 0 THEN (IF a[1] = 0 THEN NaN ELSE <<Sign(a), 0>>)
    ELSE RMul(a, Rat(b[2], b[1]))

\* a < b; every comparison with NaN is false.
RLess(a, b) ==
    /\ ~IsNaN(a)
    /\ ~IsNaN(b)
    /\ IF IsInf(a) /\ IsInf(b) THEN a[1] < b[1]
       ELSE LET g == IF a[2] = 0 \/ b[2] = 0 THEN 1 ELSE GCD(a[2], b[2])
            IN  a[1] * (b[2] \div g) < b[1] * (a[2] \div g)

\* a == b; NaN equals nothing.
REq(a, b) == ~IsNaN(a) /\ ~IsNaN(b) /\ a = b

RLeq(a, b) == RLess(a, b) \/ REq(a, b)

RAbs(a) == <<Abs(a[1]), a[2]>>

-----------------------------------------------------------------------------
(* Tensor helpers *)

Size(f) == Cardinality(DOMAIN f)

\* The tensor with indices 0..(n - 1) and the elements of f, held by value.
RECURSIVE TensorTo(_, _)
TensorTo(f, n) == IF n = 1 THEN 0 :> f[0] ELSE TensorTo(f, n - 1) @@ ((n - 1) :> f[n - 1])

Tensor(f) == TensorTo(f, Size(f))

RECURSIVE RSumTo(_, _)
RSumTo(f, n) == IF n = 0 THEN Zero ELSE RAdd(RSumTo(f, n - 1), f[n - 1])

Dot(u, v) == RSumTo([i \in DOMAIN u |-> RMul(u[i], v[i])], Size(u))

Col(M, k) == Tensor([i \in DOMAIN M |-> M[i][k]])

\* torch.matmul of two matrices.
matmul(M, N) ==
    Tensor([r \in DOMAIN M |-> Tensor([c \in DOMAIN N[0] |-> Dot(M[r], Col(N, c))])])

\* torch.matmul of a matrix and a vector.
matvec(M, v) == Tensor([r \in DOMAIN M |-> Dot(M[r], v)])

eye(n) ==
    Tensor([r \in 0..(n - 1) |-> Tensor([c \in 0..(n - 1) |-> IF r = c THEN One ELSE Zero])])

\* torch.stack of a 1-based list of tensors along a new first axis.
stack(list) == Tensor([k \in 0..(Len(list) - 1) |-> list[k + 1]])


-----------------------------------------------------------------------------
(* dimensions_to_corners *)

VHalf(v) == Tensor([n \in DOMAIN v |-> RDiv(v[n], Two)])
VNeg(v) == Tensor([n \in DOMAIN v |-> RNeg(v[n])])

\* Line 12: the x coordinates of corners 0..7, each a vector over the batch.
corner_x(l) ==
    stack(<<VHalf(l), VHalf(VNeg(l)), VHalf(VNeg(l)), VHalf(l),
            VHalf(l), VHalf(VNeg(l)), VHalf(VNeg(l)), VHalf(l)>>)

\* Line 13.
corner_y(h, zeros) ==
    stack(<<zeros, zeros, zeros, zeros, VNeg(h), VNeg(h), VNeg(h), VNeg(h)>>)

corner_zSwapped(w) ==
    stack(<<VHalf(w), VHalf(VNeg(w)), VHalf(w), VHalf(VNeg(w)),
            VHalf(w), VHalf(VNeg(w)), VHalf(w), VHalf(VNeg(w))>>)

\* Line 14.
corner_z(w) ==
    stack(<<VHalf(w), VHalf(w), VHalf(VNeg(w)), VHalf(VNeg(w)),
            VHalf(w), VHalf(w), VHalf(VNeg(w)), VHalf(VNeg(w))>>)

permuteFirstObject(T) ==
    Tensor([n \in DOMAIN T[0][0] |->
        Tensor([j \in DOMAIN T[0] |-> Tensor([c \in DOMAIN T |-> T[c][j][0]])])])

\* Tensor.permute(2, 1, 0) of a 3-axis tensor: out[n][j][c] = T[c][j][n].
permute(T) ==
    Tensor([n \in DOMAIN T[0][0] |->
        Tensor([j \in DOMAIN T[0] |-> Tensor([c \in DOMAIN T |-> T[c][j][n]])])])

\* Lines 10-17: dims is N x 3, the result N x 8 x 3.
dimensions_to_corners(dims) ==
    LET h == Col(dims, 0)
        w == Col(dims, 1)
        l == Col(dims, 2)
        zeros == Tensor([n \in DOMAIN dims |-> Zero])
        corners == stack(<<corner_x(l), corner_y(h, zeros), corner_z(w)>>)
    IN  permute(corners)

-----------------------------------------------------------------------------
(* solve_3d_bbox_single: the functions it applies *)

ISqrt(n) == CHOOSE r \in 0..n : r * r = n
IsSquare(n) == \E r \in 0..n : r * r = n

\* The square root of a rational that has a rational root.
RSqrt(q) == <<ISqrt(q[1]), ISqrt(q[2])>>

\* torch.atan2(y, x) as the direction <<cos, sin>> of the angle; atan2(0, 0) = 0.
atan2(y, x) ==
    LET h2 == RAdd(RMul(x, x), RMul(y, y))
    IN  IF h2 = Zero THEN <<One, Zero>>
        ELSE <<RDiv(x, RSqrt(h2)), RDiv(y, RSqrt(h2))>>

cos(a) == a[1]
sin(a) == a[2]

\* np.pi
pi == <<RNeg(One), Zero>>

\* The angle a - b.
AngleSub(a, b) ==
    <<RAdd(RMul(cos(a), cos(b)), RMul(sin(a), sin(b))),
      RSub(RMul(sin(a), cos(b)), RMul(cos(a), sin(b)))>>

\* Lines 33-35: K = P2 . R0_rect, R0_rect embedded in the 4 x 4 identity.
Projection(cal) ==
    LET R0_rect == Tensor([r \in 0..3 |-> Tensor([c \in 0..3 |->
                       IF r < 3 /\ c < 3 THEN cal.R0_rect[r][c] ELSE eye(4)[r][c]])])
    IN  matmul(cal.P2, R0_rect)

\* Line 38.
ThetaRay(bbox2D, P2) ==
    atan2(P2[0][0], RSub(RMul(RAdd(bbox2D[0], bbox2D[2]), Half), P2[0][2]))

\* Lines 39-43: the transposed rotation about the vertical axis.
Ry_T(bbox2D, theta_l, P2) ==
    LET ry == AngleSub(AngleSub(pi, ThetaRay(bbox2D, P2)), theta_l)
    IN  stack(<<stack(<<cos(ry), Zero, RNeg(sin(ry))>>),
                stack(<<Zero, One, Zero>>),
                stack(<<sin(ry), Zero, cos(ry)>>)>>)

\* Lines 58-59 and 75-76: K . X with X the identity whose last column is corner c.
K_X(K, c) ==
    LET X == Tensor([r \in 0..3 |-> Tensor([k \in 0..3 |->
                 IF k = 3 /\ r < 3 THEN c[r] ELSE eye(4)[r][k]])])
    IN  matmul(K, X)

EdgeRowAAdded(M, r, e) == Tensor([j \in 0..2 |-> RAdd(M[r][j], RMul(e, M[2][j]))])

\* Lines 62, 66, 70, 79: the row of edge value e against row r of M = K . X.
EdgeRowA(M, r, e) == Tensor([j \in 0..2 |-> RSub(M[r][j], RMul(e, M[2][j]))])

EdgeRowBFlipped(M, r, e) == RSub(M[r][3], RMul(e, M[2][3]))

\* Lines 63, 67, 71, 80.
EdgeRowB(M, r, e) == RSub(RMul(e, M[2][3]), M[r][3])

Constrain(M, r, e) == [A |-> EdgeRowA(M, r, e), b |-> EdgeRowB(M, r, e)]

\* Lines 49-80: bbox2D is [x1, y1, x2, y2].
Constrains(K, corners, bbox2D) ==
    [x1 |-> [i \in 4..7 |-> Constrain(K_X(K, corners[i]), 0, bbox2D[0])],
     x2 |-> [i \in 4..7 |-> Constrain(K_X(K, corners[i]), 0, bbox2D[2])],
     y1 |-> [i \in 4..7 |-> Constrain(K_X(K, corners[i]), 1, bbox2D[1])],
     y2 |-> [i \in 0..3 |-> Constrain(K_X(K, corners[i]), 1, bbox2D[3])]]

\* One column step of the pseudoinverse (Greville): P is the pseudoinverse of
\* the first k columns of M, the result that of the first k + 1.
PinvStep(M, P, k) ==
    LET a == Col(M, k)
        d == Tensor([r \in 0..(k - 1) |-> Dot(P[r], a)])
        c == Tensor([i \in DOMAIN M |->
                 RSub(a[i], RSumTo([r \in 0..(k - 1) |-> RMul(M[i][r], d[r])], k))])
        cc == Dot(c, c)
        dd == RAdd(One, Dot(d, d))
        bt == IF cc # Zero
              THEN Tensor([i \in DOMAIN M |-> RDiv(c[i], cc)])
              ELSE Tensor([i \in DOMAIN M |->
                       RDiv(RSumTo([r \in 0..(k - 1) |-> RMul(d[r], P[r][i])], k), dd)])
    IN  Tensor([r \in 0..k |->
            IF r < k THEN Tensor([i \in DOMAIN M |-> RSub(P[r][i], RMul(d[r], bt[i]))])
            ELSE bt])

RECURSIVE PinvTo(_, _)
PinvTo(M, k) ==
    IF k = 0
    THEN LET a == Col(M, 0)
             aa == Dot(a, a)
         IN  Tensor([r \in {0} |-> Tensor([i \in DOMAIN M |->
                                IF aa = Zero THEN Zero ELSE RDiv(a[i], aa)])])
    ELSE PinvStep(M, PinvTo(M, k - 1), k)

\* torch.pinverse of a finite matrix: the Moore-Penrose pseudoinverse.
pinverse(M) == PinvTo(M, Size(M[0]) - 1)

\* torch.norm of a vector, as its square.
norm(v) == Dot(v, v)

\* Lines 108-109.
Solve(A, b) ==
    LET trans_t == matvec(pinverse(A), b)
        error_t == norm(Tensor([k \in DOMAIN b |-> RSub(Dot(A[k], trans_t), b[k])]))
    IN  [trans_t |-> trans_t, error_t |-> error_t]

crpRepeated ==
    stack(<<[x1 |-> <<6, 7>>, x2 |-> <<4>>, y1 |-> <<5, 7>>, y2 |-> <<3>>],
            [x1 |-> <<5, 6>>, x2 |-> <<7>>, y1 |-> <<4, 6>>, y2 |-> <<2>>],
            [x1 |-> <<4, 5>>, x2 |-> <<6>>, y1 |-> <<7, 5>>, y2 |-> <<1>>],
            [x1 |-> <<7, 7>>, x2 |-> <<5>>, y1 |-> <<6, 4>>, y2 |-> <<0>>]>>)

\* Lines 87-90.
crp ==
    stack(<<[x1 |-> <<6, 7>>, x2 |-> <<4>>, y1 |-> <<5, 7>>, y2 |-> <<3>>],
            [x1 |-> <<5, 6>>, x2 |-> <<7>>, y1 |-> <<4, 6>>, y2 |-> <<2>>],
            [x1 |-> <<4, 5>>, x2 |-> <<6>>, y1 |-> <<7, 5>>, y2 |-> <<1>>],
            [x1 |-> <<7, 4>>, x2 |-> <<5>>, y1 |-> <<6, 4>>, y2 |-> <<0>>]>>)

AcceptAlways(error_t, error) == TRUE
AcceptTies(error_t, error) == ~RLess(error, error_t)

\* Line 111.
Accept(error_t, error) == RLess(error_t, error)

\* Lines 95-104 for one hypothesis: the assignments of the four nested loops
\* in the order the loops visit them.
Assignments(i) ==
    LET cr == crp[i]
        n2 == Len(cr.y2)
        n1 == Len(cr.y1) * n2
        m2 == Len(cr.x2) * n1
    IN  [k \in 1..(Len(cr.x1) * m2) |->
            [i |-> i,
             x_1 |-> cr.x1[((k - 1) \div m2) + 1],
             x_2 |-> cr.x2[(((k - 1) % m2) \div n1) + 1],
             y_1 |-> cr.y1[(((k - 1) % n1) \div n2) + 1],
             y_2 |-> cr.y2[((k - 1) % n2) + 1]]]

\* Lines 92-104: the assignments of the whole enumeration, in order.
RECURSIVE EnumerationTo(_)
EnumerationTo(n) == IF n = 0 THEN <<>> ELSE EnumerationTo(n - 1) \o Assignments(n - 1)

Enumeration == EnumerationTo(Size(crp))

\* Lines 96-106: the system of one assignment.
System(constrains, c) ==
    [A |-> stack(<<constrains.x1[c.x_1].A, constrains.x2[c.x_2].A,
                   constrains.y1[c.y_1].A, constrains.y2[c.y_2].A>>),
     b |-> stack(<<constrains.x1[c.x_1].b, constrains.x2[c.x_2].b,
                   constrains.y1[c.y_1].b, constrains.y2[c.y_2].b>>)]

\* Lines 85-113 run without interruption: error and trans after the first k solves.
RECURSIVE BestOf(_, _)
BestOf(constrains, k) ==
    IF k = 0 THEN [trans |-> <<>>, error |-> PosInf]
    ELSE LET prev == BestOf(constrains, k - 1)
             sys == System(constrains, Enumeration[k])
             s == Solve(sys.A, sys.b)
         IN  IF Accept(s.error_t, prev.error)
             THEN [trans |-> s.trans_t, error |-> s.error_t]
             ELSE prev

\* Lines 20-116 run alone: the value of trans at the return (<<>> when unbound).
solve_3d_bbox_single(bbox2D, corners, theta_l, cal) ==
    LET rotated == matmul(corners, Ry_T(bbox2D, theta_l, cal.P2))
        constrains == Constrains(Projection(cal), rotated, bbox2D)
    IN  BestOf(constrains, Len(Enumeration)).trans

-----------------------------------------------------------------------------
(* State *)

VARIABLES
    dimensions,  \* the batch handed to dimensions_to_corners, N x 3
    stage,       \* "dims" before dimensions_to_corners has run, "corners" after
    canonical,   \* its result, N x 8 x 3
    calib,       \* [P2 : 3 x 4, R0_rect : 3 x 3], shared by the calls
    args,        \* per call: bbox2D, det (corners = canonical[det]), theta_l
    pc,          \* per call: its position in solve_3d_bbox_single
    frame,       \* per call: its local variables
    A,           \* the 4 x 3 buffers of line 83, by buffer
    b,           \* the 4-vectors of line 84, by buffer
    tried        \* per call: the solves performed so far (history)

vars == <<dimensions, stage, canonical, calib, args, pc, frame, A, b, tried>>

Procs == {1, 2}

\* A local that is not assigned yet.
Unbound == <<>>

NoFrame ==
    [K |-> Unbound, corners |-> Unbound, constrains |-> Unbound, buf |-> 0,
     error |-> Unbound, trans |-> Unbound,
     i |-> 0, ix1 |-> 0, ix2 |-> 0, iy1 |-> 0, iy2 |-> 0,
     x_1 |-> 0, x_2 |-> 0, y_1 |-> 0, y_2 |-> 0]

-----------------------------------------------------------------------------
(* Inputs *)

MaxDim == 2
MaxBatch == 2
TRange == 1

Whole(k) == Rat(k, 1)
Vec(list) == stack([k \in 1..Len(list) |-> Whole(list[k])])

DimValues == {Whole(k) : k \in 1..MaxDim}
FiniteDims == {stack(<<h, w, l>>) : h \in DimValues, w \in DimValues, l \in DimValues}
NonFiniteDims == {stack(<<NaN, One, One>>), stack(<<One, One, PosInf>>)}
DimSet == FiniteDims \cup NonFiniteDims

Batches(n) == [0..(n - 1) -> DimSet]

\* P2 = [I | 0] and R0_rect = I.
CalibIdentity ==
    [P2 |-> stack(<<Vec(<<1, 0, 0, 0>>), Vec(<<0, 1, 0, 0>>), Vec(<<0, 0, 1, 0>>)>>),
     R0_rect |-> stack(<<Vec(<<1, 0, 0>>), Vec(<<0, 1, 0>>), Vec(<<0, 0, 1>>)>>)]

\* A focal length of 4, an offset in the last column of P2, and a rectification
\* that turns the camera a quarter turn about its axis.
CalibTurned ==
    [P2 |-> stack(<<Vec(<<4, 0, 0, 1>>), Vec(<<0, 4, 0, 0>>), Vec(<<0, 0, 1, 0>>)>>),
     R0_rect |-> stack(<<Vec(<<0, -1, 0>>), Vec(<<1, 0, 0>>), Vec(<<0, 0, 1>>)>>)]

Calibs == {CalibIdentity, CalibTurned}

\* [x1, y1, x2, y2]; the last one is degenerate (x1 = x2 and y1 = y2).
Boxes ==
    {Vec(<<-1, -1, 1, 1>>), Vec(<<2, 1, 4, 3>>), Vec(<<-2, -1, 2, 2>>), Vec(<<0, 0, 0, 0>>)}

\* theta_l as <<cos, sin>>: 0, pi/2 and atan2(3, 4).
Angles == {<<One, Zero>>, <<Zero, One>>, <<Rat(4, 5), Rat(3, 5)>>}

\* The ray angle of the box is one whose cosine and sine are rational.
ExactRay(bbox2D, P2) ==
    LET x == RSub(RMul(RAdd(bbox2D[0], bbox2D[2]), Half), P2[0][2])
        h2 == RAdd(RMul(x, x), RMul(P2[0][0], P2[0][0]))
    IN  IsSquare(h2[1]) /\ IsSquare(h2[2])

Calls == {p \in Procs : pc[p] # "idle"}

InitCommon ==
    /\ stage = "dims"
    /\ canonical = Unbound
    /\ frame = [p \in Procs |-> NoFrame]
    /\ A = [p \in Procs |-> Unbound]
    /\ b = [p \in Procs |-> Unbound]
    /\ tried = [p \in Procs |-> <<>>]

\* One detection, one call.
Init ==
    /\ dimensions \in Batches(1)
    /\ calib \in Calibs
    /\ args \in [Procs -> [bbox2D : Boxes, det : {0}, theta_l : Angles]]
    /\ args[2] = args[1]
    /\ ExactRay(args[1].bbox2D, calib.P2)
    /\ pc = [p \in Procs |-> IF p = 1 THEN "start" ELSE "idle"]
    /\ InitCommon

\* A batch of dimensions and no call.
InitBatch ==
    /\ dimensions \in UNION {Batches(n) : n \in 1..MaxBatch}
    /\ calib = CalibIdentity
    /\ args = [p \in Procs |->
                 [bbox2D |-> Vec(<<-1, -1, 1, 1>>), det |-> 0, theta_l |-> <<One, Zero>>]]
    /\ pc = [p \in Procs |-> "idle"]
    /\ InitCommon

\* Two calls running together on the detections of one image: on two
\* detections, or twice on the same one.
InitConc ==
    /\ dimensions = stack(<<Vec(<<1, 1, 1>>), Vec(<<2, 1, 2>>)>>)
    /\ calib = CalibTurned
    /\ args \in {[p \in Procs |-> [bbox2D |-> Vec(<<-2, -1, 2, 2>>), det |-> 0,
                                    theta_l |-> <<Zero, One>>]],
                 [p \in Procs |-> [bbox2D |-> IF p = 1 THEN Vec(<<-2, -1, 2, 2>>)
                                                       ELSE Vec(<<2, 1, 4, 3>>),
                                    det |-> p - 1,
                                    theta_l |-> IF p = 1 THEN <<Zero, One>>
                                                         ELSE <<One, Zero>>]]}
    /\ \A p \in Procs : ExactRay(args[p].bbox2D, calib.P2)
    /\ pc = [p \in Procs |-> "start"]
    /\ InitCommon

-----------------------------------------------------------------------------
(* Actions *)

\* dimensions_to_corners, lines 5-17.
Generate ==
    /\ stage = "dims"
    /\ canonical' = dimensions_to_corners(dimensions)
    /\ stage' = "corners"
    /\ UNCHANGED <<dimensions, calib, args, pc, frame, A, b, tried>>

Goto(p, label) == pc' = [pc EXCEPT ![p] = label]

\* Lines 29-45: K and the rotated corners, bound to the local name corners.
Setup(p) ==
    /\ pc[p] = "start"
    /\ stage = "corners"
    /\ frame' = [frame EXCEPT
                   ![p].K = Projection(calib),
                   ![p].corners = matmul(canonical[args[p].det],
                                         Ry_T(args[p].bbox2D, args[p].theta_l, calib.P2))]
    /\ Goto(p, "prepare")
    /\ UNCHANGED <<dimensions, stage, canonical, calib, args, A, b, tried>>

\* Lines 47-80.
Prepare(p) ==
    /\ pc[p] = "prepare"
    /\ frame' = [frame EXCEPT
                   ![p].constrains = Constrains(frame[p].K, frame[p].corners, args[p].bbox2D)]
    /\ Goto(p, "alloc")
    /\ UNCHANGED <<dimensions, stage, canonical, calib, args, A, b, tried>>

AllocBufShared(p) == 1

\* Lines 83-84: each call allocates buffers of its own.
AllocBuf(p) == p

\* Lines 83-92: A, b, error and the start of the loop over crp.
Alloc(p) ==
    /\ pc[p] = "alloc"
    /\ frame' = [frame EXCEPT ![p].buf = AllocBuf(p), ![p].error = PosInf, ![p].i = 0]
    /\ A' = [A EXCEPT ![AllocBuf(p)] = Tensor([r \in 0..3 |-> Tensor([c \in 0..2 |-> Zero])])]
    /\ b' = [b EXCEPT ![AllocBuf(p)] = Tensor([r \in 0..3 |-> Zero])]
    /\ Goto(p, "for_i")
    /\ UNCHANGED <<dimensions, stage, canonical, calib, args, tried>>

\* Line 92: for i in range(4).
ForI(p) ==
    /\ pc[p] = "for_i"
    /\ IF frame[p].i < Size(crp)
       THEN /\ frame' = [frame EXCEPT ![p].ix1 = 1]
            /\ Goto(p, "for_x1")
       ELSE /\ frame' = frame
            /\ Goto(p, "return")
    /\ UNCHANGED <<dimensions, stage, canonical, calib, args, A, b, tried>>

SetRowNext(T, r, v) == [T EXCEPT ![IF r = 2 THEN 3 ELSE r] = v]

\* A[r] = v and b[r] = v of lines 96-106: an element-wise copy into row r.
SetRow(T, r, v) == [T EXCEPT ![r] = v]

\* Lines 95-97.
ForX1(p) ==
    LET f == frame[p]
        cr == crp[f.i]
    IN  /\ pc[p] = "for_x1"
        /\ IF f.ix1 <= Len(cr.x1)
           THEN /\ frame' = [frame EXCEPT ![p].x_1 = cr.x1[f.ix1], ![p].ix2 = 1]
                /\ A' = [A EXCEPT ![f.buf] = SetRow(@, 0, f.constrains.x1[cr.x1[f.ix1]].A)]
                /\ b' = [b EXCEPT ![f.buf] = SetRow(@, 0, f.constrains.x1[cr.x1[f.ix1]].b)]
                /\ Goto(p, "for_x2")
           ELSE /\ frame' = [frame EXCEPT ![p].i = f.i + 1]
                /\ UNCHANGED <<A, b>>
                /\ Goto(p, "for_i")
        /\ UNCHANGED <<dimensions, stage, canonical, calib, args, tried>>

\* Lines 98-100.
ForX2(p) ==
    LET f == frame[p]
        cr == crp[f.i]
    IN  /\ pc[p] = "for_x2"
        /\ IF f.ix2 <= Len(cr.x2)
           THEN /\ frame' = [frame EXCEPT ![p].x_2 = cr.x2[f.ix2], ![p].iy1 = 1]
                /\ A' = [A EXCEPT ![f.buf] = SetRow(@, 1, f.constrains.x2[cr.x2[f.ix2]].A)]
                /\ b' = [b EXCEPT ![f.buf] = SetRow(@, 1, f.constrains.x2[cr.x2[f.ix2]].b)]
                /\ Goto(p, "for_y1")
           ELSE /\ frame' = [frame EXCEPT ![p].ix1 = f.ix1 + 1]
                /\ UNCHANGED <<A, b>>
                /\ Goto(p, "for_x1")
        /\ UNCHANGED <<dimensions, stage, canonical, calib, args, tried>>

\* Lines 101-103.
ForY1(p) ==
    LET f == frame[p]
        cr == crp[f.i]
    IN  /\ pc[p] = "for_y1"
        /\ IF f.iy1 <= Len(cr.y1)
           THEN /\ frame' = [frame EXCEPT ![p].y_1 = cr.y1[f.iy1], ![p].iy2 = 1]
                /\ A' = [A EXCEPT ![f.buf] = SetRow(@, 2, f.constrains.y1[cr.y1[f.iy1]].A)]
                /\ b' = [b EXCEPT ![f.buf] = SetRow(@, 2, f.constrains.y1[cr.y1[f.iy1]].b)]
                /\ Goto(p, "for_y2")
           ELSE /\ frame' = [frame EXCEPT ![p].ix2 = f.ix2 + 1]
                /\ UNCHANGED <<A, b>>
                /\ Goto(p, "for_x2")
        /\ UNCHANGED <<dimensions, stage, canonical, calib, args, tried>>

\* Lines 104-106.
ForY2(p) ==
    LET f == frame[p]
        cr == crp[f.i]
    IN  /\ pc[p] = "for_y2"
        /\ IF f.iy2 <= Len(cr.y2)
           THEN /\ frame' = [frame EXCEPT ![p].y_2 = cr.y2[f.iy2]]
                /\ A' = [A EXCEPT ![f.buf] = SetRow(@, 3, f.constrains.y2[cr.y2[f.iy2]].A)]
                /\ b' = [b EXCEPT ![f.buf] = SetRow(@, 3, f.constrains.y2[cr.y2[f.iy2]].b)]
                /\ Goto(p, "solve")
           ELSE /\ frame' = [frame EXCEPT ![p].iy1 = f.iy1 + 1]
                /\ UNCHANGED <<A, b>>
                /\ Goto(p, "for_y1")
        /\ UNCHANGED <<dimensions, stage, canonical, calib, args, tried>>

\* Lines 108-113, and the step of the innermost loop.
SolveStep(p) ==
    LET f == frame[p]
        s == Solve(A[f.buf], b[f.buf])
        hit == Accept(s.error_t, f.error)
    IN  /\ pc[p] = "solve"
        /\ frame' = [frame EXCEPT
                       ![p].trans = IF hit THEN s.trans_t ELSE @,
                       ![p].error = IF hit THEN s.error_t ELSE @,
                       ![p].iy2 = f.iy2 + 1]
        /\ tried' = [tried EXCEPT ![p] = Append(@,
                       [i |-> f.i, x_1 |-> f.x_1, x_2 |-> f.x_2, y_1 |-> f.y_1, y_2 |-> f.y_2,
                        trans_t |-> s.trans_t, error_t |-> s.error_t, hit |-> hit])]
        /\ Goto(p, "for_y2")
        /\ UNCHANGED <<dimensions, stage, canonical, calib, args, A, b>>

\* Line 116: return trans; a name that was never bound raises UnboundLocalError.
Return(p) ==
    /\ pc[p] = "return"
    /\ IF frame[p].trans = Unbound THEN Goto(p, "error") ELSE Goto(p, "done")
    /\ UNCHANGED <<dimensions, stage, canonical, calib, args, frame, A, b, tried>>

Step(p) ==
    \/ Setup(p)
    \/ Prepare(p)
    \/ Alloc(p)
    \/ ForI(p)
    \/ ForX1(p)
    \/ ForX2(p)
    \/ ForY1(p)
    \/ ForY2(p)
    \/ SolveStep(p)
    \/ Return(p)

Next == Generate \/ \E p \in Procs : Step(p)

Spec == Init /\ [][Next]_vars

SpecConc == InitConc /\ [][Next]_vars

SpecBatch == InitBatch /\ [][Generate]_vars

-----------------------------------------------------------------------------
(* Properties *)

Finished(p) == pc[p] \in {"done", "error"}

\* The solve whose translation the call holds: the last one accepted.
Winner(p) ==
    CHOOSE k \in 1..Len(tried[p]) :
        tried[p][k].hit /\ \A j \in (k + 1)..Len(tried[p]) : ~tried[p][j].hit

Assignment(t) == [i |-> t.i, x_1 |-> t.x_1, x_2 |-> t.x_2, y_1 |-> t.y_1, y_2 |-> t.y_2]

Positive(x) == RLess(Zero, x)

\* C1: for every triple (h, w, l) of positive dimensions of the batch, the 8
\* corners come in the order of the table: y is 0 for corners 0-3 and -h for
\* corners 4-7, x is l/2 for corners 0, 3, 4, 7 and -l/2 for the others, z is
\* w/2 for corners 0, 1, 4, 5 and -w/2 for the others.
C1_CornerTable ==
    stage = "corners" =>
        \A n \in DOMAIN dimensions :
            LET h == dimensions[n][0]
                w == dimensions[n][1]
                l == dimensions[n][2]
            IN  (Positive(h) /\ Positive(w) /\ Positive(l)) =>
                    /\ DOMAIN canonical[n] = 0..7
                    /\ \A j \in 0..7 :
                        /\ canonical[n][j][0] = IF j \in {0, 3, 4, 7}
                                                THEN RDiv(l, Two) ELSE RNeg(RDiv(l, Two))
                        /\ canonical[n][j][1] = IF j \in 0..3 THEN Zero ELSE RNeg(h)
                        /\ canonical[n][j][2] = IF j \in {0, 1, 4, 5}
                                                THEN RDiv(w, Two) ELSE RNeg(RDiv(w, Two))

C1_Witness ==
    /\ stage = "corners"
    /\ \E n \in DOMAIN dimensions :
        /\ dimensions[n] = Vec(<<2, 1, 2>>)
        /\ canonical[n][6] = stack(<<Whole(-1), Whole(-2), Rat(-1, 2)>>)
        /\ canonical[n][1] = stack(<<Whole(-1), Zero, Rat(1, 2)>>)

\* C6: the corners of a batch of N triples are N x 8 x 3, and the n-th slice
\* is what dimensions_to_corners returns for the n-th triple alone.
C6_BatchIsStacked ==
    stage = "corners" =>
        /\ DOMAIN canonical = DOMAIN dimensions
        /\ \A n \in DOMAIN dimensions :
            /\ DOMAIN canonical[n] = 0..7
            /\ \A j \in 0..7 : DOMAIN canonical[n][j] = 0..2
            /\ canonical[n] = dimensions_to_corners(stack(<<dimensions[n]>>))[0]

C6_Witness ==
    /\ stage = "corners"
    /\ Size(dimensions) = 2
    /\ \A n \in DOMAIN dimensions : \A c \in 0..2 : Positive(dimensions[n][c])
    /\ canonical[0] # canonical[1]

\* C2: a call never ends in an error: when the enumeration is over, trans is
\* bound and is returned.
C2_AlwaysReturns ==
    \A p \in Procs :
        /\ pc[p] # "error"
        /\ pc[p] \in {"return", "done"} => frame[p].trans # Unbound

\* The residual of system sys at translation t (its norm, squared).
Residual(sys, t) ==
    norm(Tensor([k \in DOMAIN sys.b |-> RSub(Dot(sys.A[k], t), sys.b[k])]))

\* C3: the residual of the returned translation, in the system it was solved
\* for, is at most the residual of every candidate system of the enumeration.
C3_GlobalMinimum ==
    \A p \in Procs :
        pc[p] = "done" =>
            LET f == frame[p]
                res == Residual(System(f.constrains, tried[p][Winner(p)]), f.trans)
            IN  \A k \in 1..Len(Enumeration) :
                    LET sys == System(f.constrains, Enumeration[k])
                    IN  RLeq(res, Solve(sys.A, sys.b).error_t)

C3_Witness ==
    \E p \in Procs :
        /\ pc[p] = "done"
        /\ Winner(p) \notin {1, Len(tried[p])}
        /\ RLess(frame[p].error, tried[p][1].error_t)
        /\ RLess(frame[p].error, tried[p][Len(tried[p])].error_t)
        /\ RLess(tried[p][1].error_t, tried[p][Len(tried[p])].error_t)

\* The edges of the box and the rows of the projection they are read in, for the
\* four corners of an assignment: <<corner, row, edge value>>.
Chosen(bbox2D, c) ==
    {<<c.x_1, 0, bbox2D[0]>>, <<c.x_2, 0, bbox2D[2]>>,
     <<c.y_1, 1, bbox2D[1]>>, <<c.y_2, 1, bbox2D[3]>>}

\* The homogeneous image K . [corner + t; 1] of a corner translated by t.
Reproject(K, corner, t) ==
    matvec(K, stack(<<RAdd(corner[0], t[0]), RAdd(corner[1], t[1]),
                      RAdd(corner[2], t[2]), One>>))

Tolerance == Rat(1, 10000)

\* C4, as claimed: for the winning assignment, each of its four rotated
\* corners, translated by the returned translation and projected through K,
\* falls on its edge of the box within the tolerance: the pixel coordinate
\* q[r] / q[2] is within Tolerance of the edge value (stated without the
\* division, so that a corner of depth zero is not held against the claim).
C4_Reprojects ==
    \A p \in Procs :
        pc[p] = "done" =>
            \A ch \in Chosen(args[p].bbox2D, tried[p][Winner(p)]) :
                LET q == Reproject(frame[p].K, frame[p].corners[ch[1]], frame[p].trans)
                IN  RLeq(RAbs(RSub(q[ch[2]], RMul(ch[3], q[2]))), RMul(Tolerance, RAbs(q[2])))

\* C4, amended: each of the four corners of the winning assignment, translated
\* by the returned translation and projected through K, misses its edge
\* condition by no more than the residual of the returned translation; when
\* that residual is zero the condition is met exactly and, where the depth is
\* not zero, the pixel coordinate is the edge value.
C4_ReprojectsToResidual ==
    \A p \in Procs :
        pc[p] = "done" =>
            \A ch \in Chosen(args[p].bbox2D, tried[p][Winner(p)]) :
                LET q == Reproject(frame[p].K, frame[p].corners[ch[1]], frame[p].trans)
                    miss == RSub(q[ch[2]], RMul(ch[3], q[2]))
                IN  /\ RLeq(RMul(miss, miss), frame[p].error)
                    /\ (frame[p].error = Zero /\ q[2] # Zero) => RDiv(q[ch[2]], q[2]) = ch[3]

C4_Witness ==
    \E p \in Procs :
        /\ pc[p] = "done"
        /\ frame[p].error = Zero
        /\ RLess(args[p].bbox2D[0], args[p].bbox2D[2])
        /\ RLess(args[p].bbox2D[1], args[p].bbox2D[3])
        /\ \A ch \in Chosen(args[p].bbox2D, tried[p][Winner(p)]) :
            Positive(Reproject(frame[p].K, frame[p].corners[ch[1]], frame[p].trans)[2])

C5_Counts ==
    /\ Size(crp) = 4
    /\ \A i \in DOMAIN crp :
        Len(crp[i].x1) = 2 /\ Len(crp[i].x2) = 1 /\ Len(crp[i].y1) = 2 /\ Len(crp[i].y2) = 1
    /\ \A p \in Procs :
        /\ Len(tried[p]) <= 16
        /\ pc[p] \in {"return", "done", "error"} =>
            /\ Len(tried[p]) = 16
            /\ \A i \in 0..3 :
                Cardinality({k \in 1..Len(tried[p]) : tried[p][k].i = i}) = 4
            /\ \A j, k \in 1..Len(tried[p]) :
                j # k => Assignment(tried[p][j]) # Assignment(tried[p][k])

\* How far a call has come: a number that every step of the call raises.
Position(p) ==
    LET f == frame[p]
        at == ((((f.i * 4 + f.ix1) * 4 + f.ix2) * 4 + f.iy1) * 4 + f.iy2) * 2
    IN  CASE pc[p] \in {"idle", "start"} -> 0
          [] pc[p] = "prepare" -> 1
          [] pc[p] = "alloc" -> 2
          [] pc[p] = "for_i" -> 3 + f.i * 512
          [] pc[p] = "for_x1" -> 3 + (f.i * 4 + f.ix1) * 128
          [] pc[p] = "for_x2" -> 3 + ((f.i * 4 + f.ix1) * 4 + f.ix2) * 32
          [] pc[p] = "for_y1" -> 3 + (((f.i * 4 + f.ix1) * 4 + f.ix2) * 4 + f.iy1) * 8
          [] pc[p] = "for_y2" -> 3 + at
          [] pc[p] = "solve" -> 3 + at + 1
          [] pc[p] = "return" -> 3 + 5 * 512
          [] OTHER -> 4 + 5 * 512

C5_Progress ==
    \A p \in Procs :
        /\ pc'[p] # pc[p] => Position(p)' > Position(p)
        /\ Position(p)' <= 4 + 5 * 512

\* C5: the table has 4 hypotheses with 2, 1, 2 and 1 candidate corners for x1,
\* x2, y1 and y2; a call performs 4 solves per hypothesis, 16 in all, each for
\* another assignment of corners, and then ends: every step brings the call
\* nearer to its end, which it reaches after the 16th solve.
C5_Enumeration == []C5_Counts /\ [][C5_Progress]_vars

C5_Witness ==
    /\ pc[1] = "done"
    /\ Len(tried[1]) = 16
    /\ tried[1][16].i = 3

TSet ==
    {stack(<<Whole(x), Whole(y), Whole(z)>>) :
        x \in (-TRange)..TRange, y \in (-TRange)..TRange, z \in (-TRange)..TRange}

\* The row con built for edge value e from row r of M = K . X holds at t
\* exactly when row r of M . [t; 1] is e times its depth row.
RowEncodes(M, r, e, con) ==
    \A t \in TSet :
        REq(Dot(con.A, t), con.b)
            <=> REq(Dot(M[r], stack(<<t[0], t[1], t[2], One>>)),
                    RMul(e, Dot(M[2], stack(<<t[0], t[1], t[2], One>>))))

\* C8: every constraint row encodes its edge condition: A . t = b if and only
\* if the projection of the corner translated by t has its numerator row equal
\* to the edge value times its depth row, for every t.
C8_RowsEncodeEdges ==
    \A p \in Procs :
        pc[p] = "alloc" =>
            LET f == frame[p]
                bb == args[p].bbox2D
            IN  \A i \in 0..7 :
                    LET M == K_X(f.K, f.corners[i])
                    IN  IF i >= 4
                        THEN /\ RowEncodes(M, 0, bb[0], f.constrains.x1[i])
                             /\ RowEncodes(M, 0, bb[2], f.constrains.x2[i])
                             /\ RowEncodes(M, 1, bb[1], f.constrains.y1[i])
                        ELSE RowEncodes(M, 1, bb[3], f.constrains.y2[i])

C8_Witness ==
    \E p \in Procs :
        /\ pc[p] = "alloc"
        /\ \E t \in TSet :
            /\ REq(Dot(frame[p].constrains.x1[4].A, t), frame[p].constrains.x1[4].b)
            /\ REq(Dot(frame[p].constrains.y2[0].A, t), frame[p].constrains.y2[0].b)
        /\ \E t \in TSet :
            ~REq(Dot(frame[p].constrains.x1[4].A, t), frame[p].constrains.x1[4].b)

\* C9: at every solve the buffers A and b hold the four constraints of the
\* current assignment: rows 0, 1, 2, 3 are the x1, x2, y1, y2 constraints of
\* the current corners of the current hypothesis.
C9_BuffersCurrent ==
    \A p \in Procs :
        pc[p] = "solve" =>
            LET f == frame[p]
                cr == crp[f.i]
                c == [i |-> f.i, x_1 |-> cr.x1[f.ix1], x_2 |-> cr.x2[f.ix2],
                      y_1 |-> cr.y1[f.iy1], y_2 |-> cr.y2[f.iy2]]
            IN  /\ c = [i |-> f.i, x_1 |-> f.x_1, x_2 |-> f.x_2, y_1 |-> f.y_1, y_2 |-> f.y_2]
                /\ A[f.buf] = System(f.constrains, c).A
                /\ b[f.buf] = System(f.constrains, c).b

C9_Witness ==
    \E p \in Procs :
        /\ pc[p] = "solve"
        /\ frame[p].i = 3
        /\ frame[p].ix1 = 2
        /\ frame[p].iy1 = 2
        /\ frame[p].constrains.y1[6].b # frame[p].constrains.y1[4].b
        /\ frame[p].constrains.x1[7].b # frame[p].constrains.x1[4].b
        /\ frame[p].constrains.y2[1].b # frame[p].constrains.y2[0].b

\* The first solve of the enumeration whose residual no other solve is below.
FirstMinimum(p) ==
    CHOOSE k \in 1..Len(tried[p]) :
        /\ RLess(tried[p][k].error_t, PosInf)
        /\ \A j \in 1..Len(tried[p]) : ~RLess(tried[p][j].error_t, tried[p][k].error_t)
        /\ \A j \in 1..(k - 1) : ~REq(tried[p][j].error_t, tried[p][k].error_t)

C10_FirstWins ==
    \A p \in Procs :
        pc[p] = "done" =>
            /\ \A k \in 1..Len(tried[p]) : Assignment(tried[p][k]) = Enumeration[k]
            /\ frame[p].trans = tried[p][FirstMinimum(p)].trans_t
            /\ frame[p].error = tried[p][FirstMinimum(p)].error_t

C10_NeverIncreases ==
    \A p \in Procs :
        (frame[p].error # Unbound /\ frame'[p].error # Unbound) =>
            RLeq(frame'[p].error, frame[p].error)

\* C10: among the solves of minimal residual the returned translation is that
\* of the one enumerated first, and the stored minimum never increases.
C10_TieBreak == []C10_FirstWins /\ [][C10_NeverIncreases]_vars

C10_Witness ==
    \E p \in Procs :
        /\ pc[p] = "done"
        /\ \E k \in 1..Len(tried[p]) :
            /\ k > FirstMinimum(p)
            /\ REq(tried[p][k].error_t, frame[p].error)
            /\ tried[p][k].trans_t # frame[p].trans

C7_SameAsAlone ==
    \A p \in Procs :
        /\ pc[p] = "done" =>
            frame[p].trans = solve_3d_bbox_single(args[p].bbox2D, canonical[args[p].det],
                                                  args[p].theta_l, calib)
        /\ pc[p] = "error" =>
            Unbound = solve_3d_bbox_single(args[p].bbox2D, canonical[args[p].det],
                                           args[p].theta_l, calib)

C7_OwnDataOnly ==
    /\ stage = "corners" =>
        /\ dimensions' = dimensions
        /\ canonical' = canonical
        /\ calib' = calib
        /\ args' = args
    /\ \A p \in Procs :
        pc'[p] = pc[p] =>
            /\ frame'[p] = frame[p]
            /\ tried'[p] = tried[p]
            /\ pc[p] \in {"for_i", "for_x1", "for_x2", "for_y1", "for_y2", "solve"} =>
                /\ A'[frame[p].buf] = A[frame[p].buf]
                /\ b'[frame[p].buf] = b[frame[p].buf]

\* C7: under every interleaving of the steps of two calls each call returns
\* the translation it returns when it runs alone on its inputs; a step of one
\* call leaves the inputs and the other call's data as they are.
C7_Independent == []C7_SameAsAlone /\ [][C7_OwnDataOnly]_vars

C7_Witness ==
    /\ pc[1] = "done"
    /\ pc[2] = "done"
    /\ args[1].det # args[2].det
    /\ frame[1].trans # frame[2].trans

=============================================================================
